---- MODULE Spec2Model ----
(***************************************************************************)
(* project-man: the workspace registry (src/config/workspace.rs), the      *)
(* commands that load, mutate and save it (src/commands/*.rs) and the git  *)
(* wrapper they call (src/git/mod.rs).                                     *)
(*                                                                         *)
(* Strings are sequences of one-character strings.  Every command          *)
(* invocation is a process; its steps are cut at the blocking waits of the *)
(* code (a git subprocess, a read from the terminal): the code between     *)
(* two waits is one action.  Other invocations and the user's own file     *)
(* operations may act between two steps.                                   *)
(***************************************************************************)
EXTENDS Integers, Sequences, FiniteSets, TLC

\* ------------------------------------------------------------------ bounds
\* The clock Utc::now() reads advances by one with every command invocation;
\* MaxTime is the last time an invocation may start at.
MaxTime == 2

\* The key and terminal events one interactive selection reads, at most.
MaxReads == 3

\* Concurrent command invocations on one workspace.
Procs == {1, 2}

\* -------------------------------------------------------------------- state
VARIABLES
  file,           \* <workspace>/project-man.yml
  dirs,           \* the directories that exist under the workspace root
  now,            \* the clock Utc::now() reads
  pc,             \* per invocation: where it waits
  cmd,            \* per invocation: the command
  reg,            \* per invocation: workspace_registry, the in-memory registry
  target,         \* per invocation: the repository add or remove works on
  queue,          \* per invocation: repos_to_sync, or what migrate or search found
  idx,            \* per invocation: the item of queue being processed
  success_count,  \* sync.rs:45, migrate.rs:45 (migrated_count)
  error_count,    \* sync.rs:46, migrate.rs:46 (skipped_count)
  out,            \* per invocation: the per-repository lines sync printed so far
  result,         \* per invocation: what execute returned, and its last message
  selector,       \* one call of FuzzySearch::interactive_select, and the terminal
  probe,          \* one call of GitManager: what git printed, what was returned
  searched,       \* one call of FuzzySearch::search: its arguments, what it returned
  store           \* one WorkspaceRegistry, the files it is loaded from and saved to

vars == <<file, dirs, now, pc, cmd, reg, target, queue, idx,
          success_count, error_count, out, result, selector, probe, searched,
          store>>

\* ------------------------------------------------------- string primitives
StartsWith(s, p) == Len(s) >= Len(p) /\ SubSeq(s, 1, Len(p)) = p

EndsWith(s, p) == Len(s) >= Len(p) /\ SubSeq(s, Len(s) - Len(p) + 1, Len(s)) = p

Contains(s, c) == \E i \in 1..Len(s) : s[i] = c

\* str::trim_start_matches: strips the prefix p as often as it occurs.
RECURSIVE TrimStartMatches(_, _)
TrimStartMatches(s, p) ==
  IF Len(p) > 0 /\ StartsWith(s, p)
    THEN TrimStartMatches(SubSeq(s, Len(p) + 1, Len(s)), p)
    ELSE s

\* str::trim_end_matches: strips the suffix p as often as it occurs.
RECURSIVE TrimEndMatches(_, _)
TrimEndMatches(s, p) ==
  IF Len(p) > 0 /\ EndsWith(s, p)
    THEN TrimEndMatches(SubSeq(s, 1, Len(s) - Len(p)), p)
    ELSE s

\* str::split(c): the pieces between the occurrences of the character c.
RECURSIVE Split(_, _)
Split(s, c) ==
  IF ~Contains(s, c) THEN <<s>>
  ELSE LET i == CHOOSE k \in 1..Len(s) : s[k] = c /\ \A j \in 1..(k - 1) : s[j] # c
       IN  <<SubSeq(s, 1, i - 1)>> \o Split(SubSeq(s, i + 1, Len(s)), c)

\* str::splitn(2, c): cut at the first occurrence of c only.
SplitN2(s, c) ==
  IF ~Contains(s, c) THEN <<s>>
  ELSE LET i == CHOOSE k \in 1..Len(s) : s[k] = c /\ \A j \in 1..(k - 1) : s[j] # c
       IN  <<SubSeq(s, 1, i - 1), SubSeq(s, i + 1, Len(s))>>

\* str::replace(from, to) for one-character patterns.
Replace(s, from, to) == [i \in 1..Len(s) |-> IF s[i] = from THEN to ELSE s[i]]

\* ---------------------------------------------------------------- git/mod.rs
GitAt == <<"g", "i", "t", "@">>
Http == <<"h", "t", "t", "p">>
DotGit == <<".", "g", "i", "t">>
Slash == <<"/">>

\* GlobalConfig.git: default_host and default_protocol as configured.
default_host == <<"h">>
default_protocol == "ssh"

Parsed(url, path) == [ok |-> TRUE, url |-> url, path |-> path]
InvalidUrl == [ok |-> FALSE, err |-> "InvalidUrl"]

\* Url::parse of "http(s)://host/path": the host and the path with its slash.
UrlHostPath(url) ==
  LET rest == IF StartsWith(url, Http \o <<"s", ":", "/", "/">>)
                THEN SubSeq(url, 9, Len(url))
                ELSE IF StartsWith(url, Http \o <<":", "/", "/">>)
                  THEN SubSeq(url, 8, Len(url))
                  ELSE <<>>
      parts == SplitN2(rest, "/")
  IN  [host |-> parts[1],
       path |-> IF Len(parts) = 2 THEN Slash \o parts[2] ELSE Slash]

parse_full_url(url) ==
  IF StartsWith(url, GitAt)
    THEN LET parts == SplitN2(url, ":")
         IN  IF Len(parts) # 2 THEN InvalidUrl
             ELSE LET host == TrimStartMatches(parts[1], GitAt)
                      repo_part == TrimEndMatches(parts[2], DotGit)
                  IN  Parsed(url, host \o Slash \o repo_part)
  ELSE IF StartsWith(url, Http)
    THEN LET hp == UrlHostPath(url)
             path_segments ==
               Split(TrimEndMatches(TrimStartMatches(hp.path, Slash), DotGit), "/")
         IN  IF hp.host = <<>> \/ Len(path_segments) < 2 THEN InvalidUrl
             ELSE Parsed(url, hp.host \o Slash \o path_segments[1]
                                \o Slash \o path_segments[2])
  ELSE InvalidUrl

parse_repository_url(input) ==
  IF StartsWith(input, Http) \/ StartsWith(input, GitAt)
    THEN parse_full_url(input)
  ELSE IF Contains(input, "/") /\ ~Contains(input, "@") /\ ~Contains(input, ":")
          /\ Len(Split(input, "/")) = 2
    THEN LET parts == Split(input, "/")
             url == IF default_protocol = "ssh"
                      THEN GitAt \o default_host \o <<":">> \o parts[1] \o Slash
                             \o parts[2] \o DotGit
                      ELSE Http \o <<"s", ":", "/", "/">> \o default_host \o Slash
                             \o parts[1] \o Slash \o parts[2] \o DotGit
         IN  Parsed(url, default_host \o Slash \o parts[1] \o Slash \o parts[2])
  ELSE InvalidUrl

\* add.rs:14, migrate.rs:174: relative_path.replace("/", "_")
repo_name(relative_path) == Replace(relative_path, "/", "_")

\* workspace_path.join(&repo.path) as the file system resolves it: empty
\* components (repeated slashes) name the same directory.
RECURSIVE JoinSegs(_)
JoinSegs(segs) ==
  IF Len(segs) = 0 THEN <<>>
  ELSE IF Len(segs) = 1 THEN segs[1]
  ELSE segs[1] \o Slash \o JoinSegs(Tail(segs))

get_full_path(path) == JoinSegs(SelectSeq(Split(path, "/"), LAMBDA seg : seg # <<>>))

\* An existence test on the path as written, not as the file system resolves it.
exists_unresolved(path, ds) == path \in ds

\* Path::exists of workspace_path.join(path), the directories `ds` existing.
exists(path, ds) == get_full_path(path) \in ds

\* ------------------------------------------------------ config/workspace.rs
\* Option<DateTime<Utc>>
None == <<>>
Some(t) == <<t>>

\* RepositoryConfig::new
RepositoryConfig_new(path, url, tags, t) ==
  [path |-> path, url |-> url, added_at |-> t, last_sync |-> None, tags |-> tags]

EmptyMap == [n \in {} |-> 0]

\* WorkspaceRegistry::new
WorkspaceRegistry_new(t) ==
  [version |-> "1.0", created_at |-> t, updated_at |-> t, repositories |-> EmptyMap]

\* HashMap::insert: the value under an existing key is replaced.
HashMap_insert(m, k, v) == [n \in DOMAIN m \cup {k} |-> IF n = k THEN v ELSE m[n]]

\* HashMap::remove
HashMap_remove(m, k) == [n \in DOMAIN m \ {k} |-> m[n]]

\* HashMap::retain, `keep` telling for each key whether the closure holds.
HashMap_retain(m, keep) == [n \in {k \in DOMAIN m : keep[k]} |-> m[n]]

\* An insert that leaves updated_at as it is.
add_repository_stale(r, name, config, t) ==
  [r EXCEPT !.repositories = HashMap_insert(@, name, config)]

add_repository(r, name, config, t) ==
  [r EXCEPT !.repositories = HashMap_insert(@, name, config), !.updated_at = t]

\* A removal that sets updated_at whether or not the name is there.
remove_repository_touching(r, name, t) ==
  [result |-> IF name \in DOMAIN r.repositories THEN Some(r.repositories[name]) ELSE None,
   reg |-> [r EXCEPT !.repositories = HashMap_remove(@, name), !.updated_at = t]]

\* remove_repository: what it returns, and the registry it leaves.
remove_repository(r, name, t) ==
  IF name \in DOMAIN r.repositories
    THEN [result |-> Some(r.repositories[name]),
          reg |-> [r EXCEPT !.repositories = HashMap_remove(@, name), !.updated_at = t]]
    ELSE [result |-> None, reg |-> r]

\* A lookup that never finds the name.
get_repository_absent(r, name) == None

get_repository(r, name) ==
  IF name \in DOMAIN r.repositories THEN Some(r.repositories[name]) ELSE None

\* An update that stamps every record of the registry.
update_last_sync_all(r, name, t) ==
  IF name \in DOMAIN r.repositories
    THEN [ok |-> TRUE,
          reg |-> [r EXCEPT !.repositories =
                              [n \in DOMAIN @ |-> [@[n] EXCEPT !.last_sync = Some(t)]],
                            !.updated_at = t]]
    ELSE [ok |-> FALSE, reg |-> r]

update_last_sync(r, name, t) ==
  IF name \in DOMAIN r.repositories
    THEN [ok |-> TRUE,
          reg |-> [r EXCEPT !.repositories[name].last_sync = Some(t),
                            !.updated_at = t]]
    ELSE [ok |-> FALSE, reg |-> r]

\* serde_yaml::to_string: the document project-man.yml holds.  The map of
\* repositories becomes a YAML mapping (a set of key/value entries), an
\* absent last_sync the scalar null.
yaml_option(o) ==
  IF o = None THEN [tag |-> "null", ts |-> 0] ELSE [tag |-> "ts", ts |-> o[1]]

to_string(r) ==
  [version |-> r.version, created_at |-> r.created_at, updated_at |-> r.updated_at,
   repositories |->
     {<<n, [path |-> r.repositories[n].path, url |-> r.repositories[n].url,
            added_at |-> r.repositories[n].added_at,
            last_sync |-> yaml_option(r.repositories[n].last_sync),
            tags |-> r.repositories[n].tags]>> : n \in DOMAIN r.repositories}]

\* A reader that takes every last_sync for absent.
option_yaml_null(y) == None

\* serde_yaml::from_str
option_yaml(y) == IF y.tag = "null" THEN None ELSE Some(y.ts)

from_str(doc) ==
  [version |-> doc.version, created_at |-> doc.created_at, updated_at |-> doc.updated_at,
   repositories |->
     [n \in {e[1] : e \in doc.repositories} |->
        LET f == (CHOOSE e \in doc.repositories : e[1] = n)[2]
        IN  [path |-> f.path, url |-> f.url, added_at |-> f.added_at,
             last_sync |-> option_yaml(f.last_sync), tags |-> f.tags]]]

\* project-man.yml: absent, or holding a document.
NoFile == [exists |-> FALSE]
FileOf(doc) == [exists |-> TRUE, doc |-> doc]

\* A load that keeps the records whose directory is gone.
load_unpruned(f, ds, t) ==
  IF ~f.exists THEN WorkspaceRegistry_new(t) ELSE from_str(f.doc)

\* WorkspaceRegistry::load_from_workspace, of an existing workspace.
load_from_workspace(f, ds, t) ==
  IF ~f.exists THEN WorkspaceRegistry_new(t)
  ELSE LET registry == from_str(f.doc)
       IN  [registry EXCEPT !.repositories =
              HashMap_retain(@, [n \in DOMAIN @ |-> exists(@[n].path, ds)])]

\* WorkspaceRegistry::save: the registry as saved, and the file written.
saved(r, t) == [r EXCEPT !.updated_at = t]

\* A save that keeps the records the file holds under other names.
save_merged(r, t) ==
  LET doc == to_string(saved(r, t))
  IN  FileOf([doc EXCEPT !.repositories =
                @ \cup {e \in file.doc.repositories : e[1] \notin DOMAIN r.repositories}])

save(r, t) == FileOf(to_string(saved(r, t)))

\* The repository arguments of the commands.
U_ab == <<"g", "i", "t", "@", "h", ":", "a", "/", "b">>
U_a_b == <<"g", "i", "t", "@", "h", ":", "a", "_", "b">>
U_a__b == <<"g", "i", "t", "@", "h", ":", "a", "/", "/", "b", ".", "g", "i", "t">>
U_c == <<"c", "/", "d">>
U_bad == <<"c">>
Inputs == {U_ab, U_a_b, U_a__b, U_c, U_bad}

\* The sequences of distinct elements of S: what a walk over a HashMap, or a
\* search over it, can yield.
SeqsDistinct(S) ==
  {q \in UNION {[1..k -> S] : k \in 1..Cardinality(S)} :
     \A i, j \in 1..Len(q) : i # j => q[i] # q[j]}

NoRegistry == WorkspaceRegistry_new(0)
NoTarget == [name |-> <<>>, path |-> <<>>, url |-> <<>>]
Running == [ret |-> "running", msg |-> ""]
Ok(msg) == [ret |-> "Ok", msg |-> msg]
Err(kind) == [ret |-> "Err", msg |-> kind]

\* After `p init`: an empty registry on disk, nothing cloned, no invocation.
NoSession ==
  /\ file = FileOf(to_string(saved(WorkspaceRegistry_new(0), 0)))
  /\ dirs = {}
  /\ now = 0
  /\ pc = [p \in Procs |-> "idle"]
  /\ cmd = [p \in Procs |-> "none"]
  /\ reg = [p \in Procs |-> NoRegistry]
  /\ target = [p \in Procs |-> NoTarget]
  /\ queue = [p \in Procs |-> <<>>]
  /\ idx = [p \in Procs |-> 0]
  /\ success_count = [p \in Procs |-> 0]
  /\ error_count = [p \in Procs |-> 0]
  /\ out = [p \in Procs |-> <<>>]
  /\ result = [p \in Procs |-> Running]

\* No selection, no git probe, no search and no registry of its own under way.
NoSelector ==
  [pc |-> "idle", candidates |-> <<>>, selected |-> 0, raw_mode |-> FALSE,
   screen |-> <<>>, reads |-> 0, event |-> "none", result |-> None, returned |-> Running]
NoProbe == [call |-> "none"]
NoSearch == [call |-> "none"]
NoStore == [op |-> "none"]

Init ==
  /\ NoSession
  /\ selector = NoSelector
  /\ probe = NoProbe
  /\ searched = NoSearch
  /\ store = NoStore

\* A command is invoked: main.rs:18-29.
Invoke(p, c) ==
  /\ pc[p] = "idle"
  /\ now < MaxTime
  /\ now' = now + 1
  /\ cmd' = [cmd EXCEPT ![p] = c]

\* An invocation ends: execute returns `r`.
Return(p, r) ==
  /\ pc' = [pc EXCEPT ![p] = "done"]
  /\ result' = [result EXCEPT ![p] = r]

\* The invocation goes on to wait at `at`.
Goto(p, at) ==
  /\ pc' = [pc EXCEPT ![p] = at]
  /\ UNCHANGED result

\* --------------------------------------------------------- commands/add.rs
\* add.rs:6-34: load, parse, the two checks; then git clone runs.
AddStart(p, repository) ==
  /\ Invoke(p, "add")
  /\ LET workspace_registry == load_from_workspace(file, dirs, now')
         parsed == parse_repository_url(repository)
     IN  /\ reg' = [reg EXCEPT ![p] = workspace_registry]
         /\ IF ~parsed.ok
              THEN /\ Return(p, Err("InvalidUrl"))
                   /\ UNCHANGED target
              ELSE /\ target' = [target EXCEPT ![p] =
                        [name |-> repo_name(parsed.path), path |-> parsed.path,
                         url |-> parsed.url]]
                   /\ IF get_repository(workspace_registry, repo_name(parsed.path)) # None
                        THEN Return(p, Ok("already exists in workspace"))
                      ELSE IF exists(parsed.path, dirs)
                        THEN Return(p, Ok("Directory already exists"))
                      ELSE Goto(p, "add_clone")
  /\ UNCHANGED <<selector, probe, searched, store, file, dirs, queue, idx, success_count, error_count, out>>

\* An add that registers the repository whether or not the clone succeeded.
AddClone_unchecked(p, cloned) ==
  /\ pc[p] = "add_clone"
  /\ LET repo_config ==
           RepositoryConfig_new(target[p].path, target[p].url, <<>>, now)
         added == add_repository(reg[p], target[p].name, repo_config, now)
     IN  /\ dirs' = IF cloned THEN dirs \cup {get_full_path(target[p].path)} ELSE dirs
         /\ reg' = [reg EXCEPT ![p] = saved(added, now)]
         /\ file' = save(added, now)
         /\ Return(p, Ok("Repository added successfully"))
  /\ UNCHANGED <<selector, probe, searched, store, now, cmd, target, queue, idx,
                 success_count, error_count, out>>

\* add.rs:35-55 and GitManager::clone_repository: git clone ends, with
\* success only if nothing took the target directory meanwhile; then the
\* record is inserted and the registry saved.
AddClone(p, cloned) ==
  /\ pc[p] = "add_clone"
  /\ IF cloned /\ ~exists(target[p].path, dirs)
       THEN LET repo_config ==
                  RepositoryConfig_new(target[p].path, target[p].url, <<>>, now)
                added == add_repository(reg[p], target[p].name, repo_config, now)
            IN  /\ dirs' = dirs \cup {get_full_path(target[p].path)}
                /\ reg' = [reg EXCEPT ![p] = saved(added, now)]
                /\ file' = save(added, now)
                /\ Return(p, Ok("Repository added successfully"))
       ELSE /\ Return(p, Err("Git"))
            /\ UNCHANGED <<file, dirs, reg>>
  /\ UNCHANGED <<selector, probe, searched, store, now, cmd, target, queue, idx, success_count, error_count, out>>

\* ----------------------------------------------------- commands/migrate.rs
\* migrate.rs:8-37: load, scan the source directory, ask for confirmation.
\* `found` holds the origin URL of every repository the scan found.
MigrateStart(p, found) ==
  /\ Invoke(p, "migrate")
  /\ reg' = [reg EXCEPT ![p] = load_from_workspace(file, dirs, now')]
  /\ IF found = <<>>
       THEN /\ Return(p, Ok("No Git repositories found"))
            /\ UNCHANGED queue
       ELSE /\ Goto(p, "migrate_confirm")
            /\ queue' = [queue EXCEPT ![p] = found]
  /\ UNCHANGED <<selector, probe, searched, store, file, dirs, target, idx, success_count, error_count, out>>

\* migrate.rs:39-46: the answer is read; then the first repository is analysed.
MigrateConfirm(p, input) ==
  /\ pc[p] = "migrate_confirm"
  /\ IF input # "y"
       THEN /\ Return(p, Ok("Migration cancelled"))
            /\ UNCHANGED idx
       ELSE /\ Goto(p, "migrate_item")
            /\ idx' = [idx EXCEPT ![p] = 1]
  /\ UNCHANGED <<selector, probe, searched, store, file, dirs, now, cmd, reg, target, queue,
                 success_count, error_count, out>>

\* migrate.rs:48-107 for one repository (analyze_repository has returned),
\* and migrate.rs:109-118 after the last one.  `moved` is whether
\* create_dir_all and rename succeed.
MigrateItem(p, moved) ==
  /\ pc[p] = "migrate_item"
  /\ LET parsed == parse_repository_url(queue[p][idx[p]])
         last == idx[p] = Len(queue[p])
         skip == \/ ~parsed.ok
                 \/ exists(parsed.path, dirs)
                 \/ get_repository(reg[p], repo_name(parsed.path)) # None
         repo_config ==
           RepositoryConfig_new(parsed.path, parsed.url, <<"migrated">>, now)
         registry == IF skip THEN reg[p]
                     ELSE add_repository(reg[p], repo_name(parsed.path), repo_config, now)
     IN  IF ~skip /\ ~moved
           THEN /\ Return(p, Err("Io"))
                /\ UNCHANGED <<file, dirs, reg, idx, success_count, error_count>>
           ELSE /\ dirs' = IF skip THEN dirs ELSE dirs \cup {get_full_path(parsed.path)}
                /\ success_count' = [success_count EXCEPT ![p] = IF skip THEN @ ELSE @ + 1]
                /\ error_count' = [error_count EXCEPT ![p] = IF skip THEN @ + 1 ELSE @]
                /\ IF last
                     THEN /\ reg' = [reg EXCEPT ![p] = saved(registry, now)]
                          /\ file' = save(registry, now)
                          /\ Return(p, Ok("Migration Summary"))
                          /\ UNCHANGED idx
                     ELSE /\ reg' = [reg EXCEPT ![p] = registry]
                          /\ idx' = [idx EXCEPT ![p] = @ + 1]
                          /\ Goto(p, "migrate_item")
                          /\ UNCHANGED file
  /\ UNCHANGED <<selector, probe, searched, store, now, cmd, target, queue, out>>

\* -------------------------------------------------------- commands/sync.rs
Item(r, n) == [name |-> n, repo_config |-> r.repositories[n]]

\* sync.rs:53-58: from item i on, the items whose directory is missing.
RECURSIVE Missing(_, _, _)
Missing(q, i, ds) ==
  IF i > Len(q) \/ exists(q[i].repo_config.path, ds) THEN <<>>
  ELSE <<q[i].name>> \o Missing(q, i + 1, ds)

\* sync.rs:54-57: what the loop does with the items `names`, all missing.
SyncMissing(names) ==
  [error |-> Len(names),
   printed |-> [k \in 1..Len(names) |-> <<names[k], "Directory not found">>]]

\* A loop that gives up at the first repository that failed or is missing.
SyncFrom_aborting(p, q, registry, i, successes, errors, printed, t) ==
  LET failed == errors > 0 \/ (i <= Len(q) /\ ~exists(q[i].repo_config.path, dirs))
  IN  /\ out' = [out EXCEPT ![p] = printed]
      /\ error_count' = [error_count EXCEPT ![p] = errors]
      /\ success_count' = [success_count EXCEPT ![p] = successes]
      /\ idx' = [idx EXCEPT ![p] = i]
      /\ reg' = [reg EXCEPT ![p] = registry]
      /\ UNCHANGED file
      /\ IF failed THEN Return(p, Err("Git"))
         ELSE IF i <= Len(q) THEN Goto(p, "sync_pull")
         ELSE Return(p, Ok("Sync Summary"))

\* sync.rs:48-58 and 85-98: the loop from item i on, up to the next git pull
\* or through the end of the loop, the save and the summary.
SyncFrom(p, q, registry, i, successes, errors, printed, t) ==
  LET missing == Missing(q, i, dirs)
      next == i + Len(missing)
  IN  /\ out' = [out EXCEPT ![p] = printed \o SyncMissing(missing).printed]
      /\ error_count' = [error_count EXCEPT ![p] = errors + SyncMissing(missing).error]
      /\ success_count' = [success_count EXCEPT ![p] = successes]
      /\ idx' = [idx EXCEPT ![p] = next]
      /\ IF next <= Len(q)
           THEN /\ Goto(p, "sync_pull")
                /\ reg' = [reg EXCEPT ![p] = registry]
                /\ UNCHANGED file
           ELSE /\ Return(p, Ok("Sync Summary"))
                /\ IF successes > 0
                     THEN /\ reg' = [reg EXCEPT ![p] = saved(registry, t)]
                          /\ file' = save(registry, t)
                     ELSE /\ reg' = [reg EXCEPT ![p] = registry]
                          /\ UNCHANGED file

\* sync.rs:6-50: load and select; `selected` is repos_to_sync by name: with
\* no pattern every repository in the order the HashMap yields them, with a
\* pattern what the search returned.
SyncStart(p, selected) ==
  /\ Invoke(p, "sync")
  /\ LET workspace_registry == load_from_workspace(file, dirs, now')
     IN  IF DOMAIN workspace_registry.repositories = {}
           THEN /\ selected = <<>>
                /\ reg' = [reg EXCEPT ![p] = workspace_registry]
                /\ Return(p, Ok("No repositories found in workspace"))
                /\ UNCHANGED <<file, queue, idx, success_count, error_count, out>>
         ELSE IF selected = <<>>
           THEN /\ reg' = [reg EXCEPT ![p] = workspace_registry]
                /\ Return(p, Ok("No repositories found matching"))
                /\ UNCHANGED <<file, queue, idx, success_count, error_count, out>>
         ELSE /\ selected \in SeqsDistinct(DOMAIN workspace_registry.repositories)
              /\ LET repos_to_sync ==
                       [k \in 1..Len(selected) |-> Item(workspace_registry, selected[k])]
                 IN  /\ queue' = [queue EXCEPT ![p] = repos_to_sync]
                     /\ SyncFrom(p, repos_to_sync, workspace_registry, 1, 0, 0, <<>>, now')
  /\ UNCHANGED <<selector, probe, searched, store, dirs, target>>

\* GitManager::sync_repository, by what git pull --ff-only did.
SyncResults == {"UpToDate", "Updated", "Conflict", "Failed", "LaunchFailed"}

\* A match that records the time of the pull whatever its outcome.
SyncArm_touching(r, name, res, t) ==
  [reg |-> update_last_sync(r, name, t).reg,
   success |-> IF res \in {"UpToDate", "Updated"} THEN 1 ELSE 0,
   error |-> IF res \in {"UpToDate", "Updated"} THEN 0 ELSE 1,
   text |-> IF res = "UpToDate" THEN "Up to date"
            ELSE IF res \in {"Updated", "Conflict"} THEN res ELSE "Failed"]

\* sync.rs:60-82: the arm of the match taken for one repository.
SyncArm(r, name, res, t) ==
  IF res = "UpToDate"
    THEN [reg |-> r, success |-> 1, error |-> 0, text |-> "Up to date"]
  ELSE IF res = "Updated"
    THEN [reg |-> update_last_sync(r, name, t).reg, success |-> 1, error |-> 0,
          text |-> "Updated"]
  ELSE IF res = "Conflict"
    THEN [reg |-> r, success |-> 0, error |-> 1, text |-> "Conflict"]
  ELSE [reg |-> r, success |-> 0, error |-> 1, text |-> "Failed"]

\* sync.rs:60-83 for the repository whose pull has ended, then the loop on.
SyncPull(p, res) ==
  /\ pc[p] = "sync_pull"
  /\ LET name == queue[p][idx[p]].name
         arm == SyncArm(reg[p], name, res, now)
     IN  SyncFrom(p, queue[p], arm.reg, idx[p] + 1, success_count[p] + arm.success,
                  error_count[p] + arm.error, Append(out[p], <<name, arm.text>>), now)
  /\ UNCHANGED <<selector, probe, searched, store, dirs, now, cmd, target, queue>>

\* ------------------------------------------------------ commands/remove.rs
\* remove.rs:7-36: load and search; `found` is the search result by name.
RemoveStart(p, found) ==
  /\ Invoke(p, "remove")
  /\ LET workspace_registry == load_from_workspace(file, dirs, now')
         selected == workspace_registry.repositories[found[1]]
     IN  /\ reg' = [reg EXCEPT ![p] = workspace_registry]
         /\ IF DOMAIN workspace_registry.repositories = {}
              THEN /\ found = <<>>
                   /\ Return(p, Ok("No repositories found in workspace"))
                   /\ UNCHANGED <<queue, target>>
            ELSE IF found = <<>>
              THEN /\ Return(p, Ok("No repositories found matching"))
                   /\ UNCHANGED <<queue, target>>
            ELSE /\ found \in SeqsDistinct(DOMAIN workspace_registry.repositories)
                 /\ IF Len(found) = 1
                      THEN /\ target' = [target EXCEPT ![p] =
                                [name |-> found[1], path |-> selected.path,
                                 url |-> selected.url]]
                           /\ Goto(p, "remove_confirm")
                           /\ UNCHANGED queue
                      ELSE /\ queue' = [queue EXCEPT ![p] =
                                [k \in 1..Len(found) |-> Item(workspace_registry, found[k])]]
                           /\ Goto(p, "remove_select")
                           /\ UNCHANGED target
  /\ UNCHANGED <<selector, probe, searched, store, file, dirs, idx, success_count, error_count, out>>

\* remove.rs:35-48, 84-86: interactive_select returns candidate `choice`, or
\* nothing (choice 0).
RemoveSelect(p, choice) ==
  /\ pc[p] = "remove_select"
  /\ IF choice = 0
       THEN /\ Return(p, Ok("No repository selected"))
            /\ UNCHANGED target
       ELSE /\ target' = [target EXCEPT ![p] =
                 [name |-> queue[p][choice].name,
                  path |-> queue[p][choice].repo_config.path,
                  url |-> queue[p][choice].repo_config.url]]
            /\ Goto(p, "remove_confirm")
  /\ UNCHANGED <<selector, probe, searched, store, file, dirs, now, cmd, reg, queue, idx,
                 success_count, error_count, out>>

\* remove.rs:51-61: the first answer is read.
RemoveConfirm(p, input) ==
  /\ pc[p] = "remove_confirm"
  /\ IF input # "y"
       THEN Return(p, Ok("Operation cancelled"))
       ELSE Goto(p, "remove_files")
  /\ UNCHANGED <<selector, probe, searched, store, file, dirs, now, cmd, reg, target, queue, idx,
                 success_count, error_count, out>>

\* A removal that deletes the local files whatever the second answer.
RemoveFiles_eager(p, input) ==
  /\ pc[p] = "remove_files"
  /\ LET removed == remove_repository(reg[p], target[p].name, now).reg
     IN  /\ reg' = [reg EXCEPT ![p] = saved(removed, now)]
         /\ file' = save(removed, now)
         /\ dirs' = dirs \ {get_full_path(target[p].path)}
         /\ Return(p, Ok("Local files deleted"))
  /\ UNCHANGED <<selector, probe, searched, store, now, cmd, target, queue, idx,
                 success_count, error_count, out>>

\* remove.rs:63-71, 81-83: the second answer is read, the record removed and
\* the registry saved; the local files stay unless they were asked for.
RemoveFiles(p, input) ==
  /\ pc[p] = "remove_files"
  /\ LET delete_files == input = "y"
         removed == remove_repository(reg[p], target[p].name, now).reg
     IN  /\ reg' = [reg EXCEPT ![p] = saved(removed, now)]
         /\ file' = save(removed, now)
         /\ IF delete_files THEN Goto(p, "remove_delete")
            ELSE Return(p, Ok("Local files preserved"))
  /\ UNCHANGED <<selector, probe, searched, store, dirs, now, cmd, target, queue, idx,
                 success_count, error_count, out>>

\* remove.rs:73-80: the local files are deleted, if they are there; `deleted`
\* is whether remove_dir_all succeeds.
RemoveDelete(p, deleted) ==
  /\ pc[p] = "remove_delete"
  /\ IF ~exists(target[p].path, dirs)
       THEN /\ Return(p, Ok("Local directory not found"))
            /\ UNCHANGED dirs
     ELSE IF deleted
       THEN /\ dirs' = dirs \ {get_full_path(target[p].path)}
            /\ Return(p, Ok("Local files deleted"))
     ELSE /\ Return(p, Err("Io"))
          /\ UNCHANGED dirs
  /\ UNCHANGED <<selector, probe, searched, store, file, now, cmd, reg, target, queue, idx,
                 success_count, error_count, out>>

\* ------------------------------- commands/go.rs, list.rs, status.rs, grep.rs
ReadOnly == {"go", "list", "status", "grep"}

\* The commands that only read the registry: they load it, then search,
\* select and run git or a search tool over the checkouts.
ReadStart(p, c) ==
  /\ c \in ReadOnly
  /\ Invoke(p, c)
  /\ reg' = [reg EXCEPT ![p] = load_from_workspace(file, dirs, now')]
  /\ Goto(p, "read")
  /\ UNCHANGED <<selector, probe, searched, store, file, dirs, target, queue, idx, success_count, error_count, out>>

ReadEnd(p) ==
  /\ pc[p] = "read"
  /\ Return(p, Ok(""))
  /\ UNCHANGED <<selector, probe, searched, store, file, dirs, now, cmd, reg, target, queue, idx,
                 success_count, error_count, out>>

\* The process exits; the next invocation starts from scratch.
Exit(p) ==
  /\ pc[p] = "done"
  /\ pc' = [pc EXCEPT ![p] = "idle"]
  /\ cmd' = [cmd EXCEPT ![p] = "none"]
  /\ reg' = [reg EXCEPT ![p] = NoRegistry]
  /\ target' = [target EXCEPT ![p] = NoTarget]
  /\ queue' = [queue EXCEPT ![p] = <<>>]
  /\ idx' = [idx EXCEPT ![p] = 0]
  /\ success_count' = [success_count EXCEPT ![p] = 0]
  /\ error_count' = [error_count EXCEPT ![p] = 0]
  /\ out' = [out EXCEPT ![p] = <<>>]
  /\ result' = [result EXCEPT ![p] = Running]
  /\ UNCHANGED <<selector, probe, searched, store, file, dirs, now>>

\* -------------------------------------------------------------- environment
\* The user deletes a checkout from outside the tool.
DeleteDir(d) ==
  /\ d \in dirs
  /\ dirs' = dirs \ {d}
  /\ UNCHANGED <<selector, probe, searched, store, file, now, pc, cmd, reg, target, queue, idx,
                 success_count, error_count, out, result>>

\* What the scans of the user's source directories find: nothing; two
\* checkouts of one directory name; two of one record name; three apart; one
\* whose origin does not parse.
Founds ==
  {<<>>, <<U_ab, U_a__b, U_c>>, <<U_a_b, U_ab>>, <<U_a__b, U_c, U_a_b>>, <<U_bad, U_c>>}

\* The record names the arguments `ins` can lead to, and what a search or a
\* walk over such records can yield.
Names(ins) ==
  {repo_name(parse_repository_url(u).path) : u \in {v \in ins : parse_repository_url(v).ok}}
Selections(ins) == {<<>>} \cup SeqsDistinct(Names(ins))

\* The steps of invocation p, its arguments drawn from `ins` and `founds`.
Step(p, ins, founds) ==
  \/ \E repository \in ins : AddStart(p, repository)
  \/ \E cloned \in BOOLEAN : AddClone(p, cloned)
  \/ \E found \in founds : MigrateStart(p, found)
  \/ \E input \in {"y", "n"} : MigrateConfirm(p, input)
  \/ \E moved \in BOOLEAN : MigrateItem(p, moved)
  \/ \E selected \in Selections(ins) : SyncStart(p, selected)
  \/ \E res \in SyncResults : SyncPull(p, res)
  \/ \E found \in Selections(ins) : RemoveStart(p, found)
  \/ \E choice \in 0..Cardinality(Names(ins)) :
       choice <= Len(queue[p]) /\ RemoveSelect(p, choice)
  \/ \E input \in {"y", "n"} : RemoveConfirm(p, input)
  \/ \E input \in {"y", "n"} : RemoveFiles(p, input)
  \/ \E deleted \in BOOLEAN : RemoveDelete(p, deleted)
  \/ \E c \in ReadOnly : ReadStart(p, c)
  \/ ReadEnd(p)
  \/ Exit(p)

\* One invocation at a time, and the user's deletions at any moment.
Next ==
  \/ Step(1, Inputs, Founds)
  \/ \E d \in dirs : DeleteDir(d)

Spec == Init /\ [][Next]_vars

\* One invocation after the other, the user's deletions only between them.
NextSeq ==
  \/ Step(1, Inputs, Founds)
  \/ \E d \in dirs : pc[1] = "idle" /\ DeleteDir(d)

SpecSeq == Init /\ [][NextSeq]_vars

\* Two invocations racing on the workspace: there is no lock.
NextRace == \E p \in Procs : Step(p, {U_ab, U_c, U_bad}, {<<>>, <<U_ab, U_c>>})

SpecRace == Init /\ [][NextRace]_vars

\* ------------------------------------------- search/mod.rs: the selector
\* The main variables, which a call of the selector, of a git probe or of the
\* search leaves alone.
session == <<file, dirs, now, pc, cmd, reg, target, queue, idx,
             success_count, error_count, out, result>>

\* SearchResult
SearchResult(name, path, score) ==
  [name |-> name, repo_config |-> [path |-> path], score |-> score]

\* The candidates a search hands to the selector.
Candidate_b == SearchResult(<<"b">>, <<"h", "/", "b">>, 1)
CandidateLists ==
  {<<>>} \cup SeqsDistinct({SearchResult(<<"a">>, <<"h", "/", "a">>, 2), Candidate_b,
                            SearchResult(<<"c">>, <<"h", "/", "c">>, 1)})

\* A drawing that marks the first row whatever is selected.
Render_first(candidates, selected) ==
  [k \in 1..Len(candidates) |->
     IF k = 1
       THEN [prefix |-> ">", color |-> "Green", name |-> candidates[k].name,
             path |-> Some(candidates[k].repo_config.path)]
       ELSE [prefix |-> " ", color |-> "White", name |-> candidates[k].name,
             path |-> None]]

\* search/mod.rs:79-99: the rows of the list, the row of `selected` marked and
\* followed by its path.
Render(candidates, selected) ==
  [k \in 1..Len(candidates) |->
     IF k - 1 = selected
       THEN [prefix |-> ">", color |-> "Green", name |-> candidates[k].name,
             path |-> Some(candidates[k].repo_config.path)]
       ELSE [prefix |-> " ", color |-> "White", name |-> candidates[k].name,
             path |-> None]]

\* A move down that does not stop at the last row.
KeyDown_unbounded(selected, len) == selected + 1

\* search/mod.rs:106-110, KeyCode::Up
KeyUp(selected) == IF selected > 0 THEN selected - 1 ELSE selected

\* search/mod.rs:111-115, KeyCode::Down
KeyDown(selected, len) == IF selected < len - 1 THEN selected + 1 ELSE selected

\* An Enter that takes the first candidate.
KeyEnter_first(candidates, selected) == Some(candidates[1])

\* search/mod.rs:116-118, KeyCode::Enter
KeyEnter(candidates, selected) == Some(candidates[selected + 1])

\* An early return for the empty list only.
ReturnsAtOnce_empty(candidates) == Len(candidates) = 0

\* search/mod.rs:50-56: the lists for which the selector returns at once.
ReturnsAtOnce(candidates) == Len(candidates) = 0 \/ Len(candidates) = 1

\* What event::read yields: the four keys, another key, an event that is no
\* key (a resize, the mouse), or an error.
Events == {"Up", "Down", "Enter", "Esc", "OtherKey", "NoKey", "Error"}

\* interactive_select returns `r`, the terminal left as it is.
SelectReturn(r) == selector' = [selector EXCEPT !.pc = "returned", !.returned = r]

\* search/mod.rs:49-61: the early returns, then enable_raw_mode.
SelectEnter(raw_ok) ==
  /\ selector.pc = "idle"
  /\ LET candidates == selector.candidates
     IN  IF ReturnsAtOnce(candidates)
           THEN SelectReturn([ret |-> "Ok",
                              msg |-> IF Len(candidates) = 0 THEN None
                                      ELSE Some(candidates[1])])
         ELSE IF ~raw_ok
           THEN SelectReturn(Err("Io"))
         ELSE selector' = [selector EXCEPT !.pc = "draw", !.raw_mode = TRUE,
                                           !.selected = 0]
  /\ UNCHANGED <<session, probe, searched, store>>

\* search/mod.rs:63-101: the screen is cleared and the list drawn; `written`
\* rows get out before a write fails, `flushed` is whether the flush succeeds.
SelectDraw(written, flushed) ==
  /\ selector.pc = "draw"
  /\ LET rows == Render(selector.candidates, selector.selected)
     IN  IF written = Len(rows) /\ flushed
           THEN selector' = [selector EXCEPT !.pc = "read", !.screen = rows]
           ELSE selector' = [selector EXCEPT !.pc = "returned", !.returned = Err("Io"),
                                             !.screen = SubSeq(rows, 1, written)]
  /\ UNCHANGED <<session, probe, searched, store>>

\* search/mod.rs:104-124: one event is read and handled.
SelectRead(ev) ==
  /\ selector.pc = "read"
  /\ selector.reads < MaxReads
  /\ LET read == [selector EXCEPT !.reads = @ + 1, !.event = ev]
     IN  selector' =
           IF ev = "Error"
             THEN [read EXCEPT !.pc = "returned", !.returned = Err("Io")]
           ELSE IF ev = "Up"
             THEN [read EXCEPT !.pc = "draw", !.selected = KeyUp(@)]
           ELSE IF ev = "Down"
             THEN [read EXCEPT !.pc = "draw",
                               !.selected = KeyDown(@, Len(selector.candidates))]
           ELSE IF ev = "Enter"
             THEN [read EXCEPT !.pc = "restore",
                               !.result = KeyEnter(selector.candidates, selector.selected)]
           ELSE IF ev = "Esc"
             THEN [read EXCEPT !.pc = "restore", !.result = None]
           ELSE [read EXCEPT !.pc = "draw"]
  /\ UNCHANGED <<session, probe, searched, store>>

\* search/mod.rs:127-128: disable_raw_mode
SelectRestore(ok) ==
  /\ selector.pc = "restore"
  /\ IF ok THEN selector' = [selector EXCEPT !.pc = "clear", !.raw_mode = FALSE]
     ELSE SelectReturn(Err("Io"))
  /\ UNCHANGED <<session, probe, searched, store>>

\* search/mod.rs:130-137: the screen is cleared and the result returned.
SelectClear(ok) ==
  /\ selector.pc = "clear"
  /\ IF ok
       THEN selector' = [selector EXCEPT !.pc = "returned", !.screen = <<>>,
                           !.returned = [ret |-> "Ok", msg |-> selector.result]]
       ELSE SelectReturn(Err("Io"))
  /\ UNCHANGED <<session, probe, searched, store>>

\* A call of interactive_select with any of the candidate lists, the terminal
\* in its normal mode.
InitSelect ==
  /\ NoSession
  /\ selector \in {[NoSelector EXCEPT !.candidates = l] : l \in CandidateLists}
  /\ probe = NoProbe
  /\ searched = NoSearch
  /\ store = NoStore

NextSelect ==
  \/ \E raw_ok \in BOOLEAN : SelectEnter(raw_ok)
  \/ \E written \in 0..Len(selector.candidates) : \E flushed \in BOOLEAN :
       SelectDraw(written, flushed)
  \/ \E ev \in Events : SelectRead(ev)
  \/ \E ok \in BOOLEAN : SelectRestore(ok)
  \/ \E ok \in BOOLEAN : SelectClear(ok)

SpecSelect == InitSelect /\ [][NextSelect]_vars


\* ------------------------------------------- git/mod.rs: the git probes
\* str::contains for a pattern of any length.
ContainsStr(s, p) ==
  \E i \in 0..(Len(s) - Len(p)) : SubSeq(s, i + 1, i + Len(p)) = p

\* str::lines: the lines of a text, without their line ends.
Lines(s) ==
  LET pieces == Split(s, "\n")
  IN  IF pieces[Len(pieces)] = <<>> THEN SubSeq(pieces, 1, Len(pieces) - 1) ELSE pieces

\* str::trim: white space stripped at both ends.
Whitespace == {" ", "\n", "\t"}
RECURSIVE Trim(_)
Trim(s) ==
  IF s = <<>> THEN s
  ELSE IF s[1] \in Whitespace THEN Trim(SubSeq(s, 2, Len(s)))
  ELSE IF s[Len(s)] \in Whitespace THEN Trim(SubSeq(s, 1, Len(s) - 1))
  ELSE s

\* str::parse::<usize>().unwrap_or(0): the number a decimal numeral denotes,
\* 0 for any other text.
DecimalDigits == <<"0", "1", "2", "3", "4", "5", "6", "7", "8", "9">>
DigitValue(c) == (CHOOSE k \in 1..Len(DecimalDigits) : DecimalDigits[k] = c) - 1
RECURSIVE NumeralValue(_)
NumeralValue(s) ==
  IF s = <<>> THEN 0
  ELSE NumeralValue(SubSeq(s, 1, Len(s) - 1)) * 10 + DigitValue(s[Len(s)])
parse_or_zero(s) ==
  IF s # <<>> /\ \A i \in 1..Len(s) : \E k \in 1..Len(DecimalDigits) : DecimalDigits[k] = s[i]
    THEN NumeralValue(s) ELSE 0

\* The texts sync_repository looks for.
AlreadyUpToDate ==
  <<"A", "l", "r", "e", "a", "d", "y", " ", "u", "p", " ", "t", "o", " ", "d", "a",
    "t", "e">>
Diverged == <<"d", "i", "v", "e", "r", "g", "e", "d">>
NonFastForward ==
  <<"n", "o", "n", "-", "f", "a", "s", "t", "-", "f", "o", "r", "w", "a", "r", "d">>
Arrow == <<"-", ">">>
PullFailed ==
  <<"G", "i", "t", " ", "p", "u", "l", "l", " ", "f", "a", "i", "l", "e", "d", ":",
    " ">>

\* What git prints for two updated refs, and for a failure of its own.
Out_ref2 ==
  <<" ", "a", " ", "-", ">", " ", "o", "/", "a", "\n", " ", "b", " ", "-", ">", " ",
    "o", "/", "b", "\n">>
Err_fatal == <<"f", "a", "t", "a", "l", ":", " ", "x">>

\* std::process::Output of a git command, or the failure to run it.
NotLaunched == [launched |-> FALSE]
Output(success, stdout, stderr) ==
  [launched |-> TRUE, success |-> success, stdout |-> stdout, stderr |-> stderr]

\* SyncResult and RepoStatus, and the errors of the probes.
UpToDate == [ok |-> TRUE, kind |-> "UpToDate"]
Updated(commits_pulled) ==
  [ok |-> TRUE, kind |-> "Updated", commits_pulled |-> commits_pulled]
Conflict(ahead, behind) ==
  [ok |-> TRUE, kind |-> "Conflict", ahead |-> ahead, behind |-> behind]
RepoStatus(is_clean, ahead, behind) ==
  [ok |-> TRUE, is_clean |-> is_clean, ahead |-> ahead, behind |-> behind]
GitError(msg) == [ok |-> FALSE, kind |-> "Git", msg |-> msg]

\* A count of every line of the output.
commits_pulled_all(stdout) == Len(Lines(stdout))

\* git/mod.rs:67-69: the lines of stdout that hold "->" and "/".
commits_pulled(stdout) ==
  Len(SelectSeq(Lines(stdout),
                LAMBDA line : ContainsStr(line, Arrow) /\ ContainsStr(line, Slash)))

\* GitManager::sync_repository, given what `git pull --ff-only` did.
sync_repository(o) ==
  IF ~o.launched THEN GitError(<<"Failed to execute git pull">>)
  ELSE IF o.success
    THEN IF ContainsStr(o.stdout, AlreadyUpToDate) THEN UpToDate
         ELSE Updated(commits_pulled(o.stdout))
  ELSE IF ContainsStr(o.stderr, Diverged) \/ ContainsStr(o.stderr, NonFastForward)
    THEN Conflict(0, 0)
  ELSE GitError(PullFailed \o o.stderr)

\* GitManager::get_repository_status, given what `git status --porcelain` and
\* `git rev-list --left-right --count HEAD...@{upstream}` did.
get_repository_status(status_output, ahead_behind_output) ==
  IF ~status_output.launched THEN GitError(<<"Failed to get git status">>)
  ELSE LET is_clean == status_output.stdout = <<>>
           parts == Split(Trim(ahead_behind_output.stdout), "\t")
       IN  IF ahead_behind_output.launched /\ ahead_behind_output.success
                /\ Len(parts) = 2
             THEN RepoStatus(is_clean, parse_or_zero(parts[1]), parse_or_zero(parts[2]))
             ELSE RepoStatus(is_clean, 0, 0)

\* What git prints on its standard output when it pulls or for status
\* --porcelain, and on its standard error when it pulls.
Stdouts ==
  {<<>>,
   AlreadyUpToDate \o <<".", "\n">>,
   <<"F", "a", "s", "t", "-", "f", "o", "r", "w", "a", "r", "d", "\n">>,
   <<" ", "a", " ", "-", ">", " ", "o", "/", "a", "\n">>,
   Out_ref2,
   <<"x", " ", "-", ">", " ", "y", "\n", " ", "a", "/", "b", "\n">>,
   <<" ", "M", " ", "a", "\n">>}
Stderrs ==
  {<<>>, <<"h", "a", "v", "e", " ">> \o Diverged, <<"(">> \o NonFastForward \o <<")">>,
   Err_fatal, Out_ref2}

\* What the first git command of a probe can do, and what rev-list
\* --left-right --count can do.
GitOutputs ==
  {NotLaunched} \cup
  {Output(success, stdout, stderr) :
     success \in BOOLEAN, stdout \in Stdouts, stderr \in Stderrs}
RevListOutputs ==
  {NotLaunched, Output(FALSE, <<>>, Err_fatal)} \cup
  {Output(TRUE, stdout, <<>>) :
     stdout \in {<<"1", "\t", "2", "\n">>, <<"0", "\t", "0", "\n">>,
                 <<"1", "2", "\t", "0", "\n">>, <<"x", "\t", "3", "\n">>,
                 <<"3", "\n">>}}

\* sync.rs:60 and status.rs:54: a probe is called and returns.
ProbeSync ==
  /\ probe.call = "none"
  /\ probe' = [probe EXCEPT !.call = "sync", !.result = sync_repository(probe.output)]
  /\ UNCHANGED <<session, selector, searched, store>>

ProbeStatus ==
  /\ probe.call = "none"
  /\ probe' = [probe EXCEPT !.call = "status",
                 !.result = get_repository_status(probe.output, probe.upstream)]
  /\ UNCHANGED <<session, selector, searched, store>>

InitProbe ==
  /\ NoSession
  /\ selector = NoSelector
  /\ probe \in {[call |-> "none", output |-> o, upstream |-> u, result |-> None] :
                  o \in GitOutputs, u \in RevListOutputs}
  /\ searched = NoSearch
  /\ store = NoStore

NextProbe == ProbeSync \/ ProbeStatus

SpecProbe == InitProbe /\ [][NextProbe]_vars

\* --------------------------------------------- search/mod.rs: the search
\* Every character of p occurs in s, in the order of p.
RECURSIVE IsSubsequence(_, _)
IsSubsequence(p, s) ==
  IF p = <<>> THEN TRUE
  ELSE IF s = <<>> THEN FALSE
  ELSE IF p[1] = s[1] THEN IsSubsequence(SubSeq(p, 2, Len(p)), SubSeq(s, 2, Len(s)))
  ELSE IsSubsequence(p, SubSeq(s, 2, Len(s)))

\* char::to_lowercase over the letters of the names, and the upper-case ones.
Uppercase == {"A", "B"}
to_lowercase(s) ==
  [i \in 1..Len(s) |-> IF s[i] = "A" THEN "a" ELSE IF s[i] = "B" THEN "b" ELSE s[i]]

\* CaseMatching of the fuzzy-matcher crate: the matcher tells upper case from
\* lower always, never, or when the pattern holds an upper-case letter.
CaseMatching == {"Respect", "Ignore", "Smart"}
respects_case(case, pattern) ==
  \/ case = "Respect"
  \/ case = "Smart" /\ \E i \in 1..Len(pattern) : pattern[i] \in Uppercase

\* search/mod.rs:34, SkimMatcherV2::fuzzy_match of the fuzzy-matcher crate: no
\* score for a name the pattern is no sub-sequence of, else the score the
\* matcher gives that name, `matcher.score[name]`.  Which letter case mode
\* SkimMatcherV2::default() has and which scores it gives, the model leaves
\* open: `matcher.case` is any of the three modes, `matcher.score` any scores.
fuzzy_match(name, pattern, matcher) ==
  LET matched == IF respects_case(matcher.case, pattern)
                   THEN IsSubsequence(pattern, name)
                   ELSE IsSubsequence(to_lowercase(pattern), to_lowercase(name))
  IN  IF matched THEN Some(matcher.score[name]) ELSE None

\* A collection that keeps every repository, matched or not.
filter_map_all(repositories, pattern, matcher) ==
  [k \in 1..Len(repositories) |->
     SearchResult(repositories[k].name, repositories[k].repo_config.path,
                  matcher.score[repositories[k].name])]

\* search/mod.rs:31-41: filter_map and collect: the repositories the matcher
\* gives a score, in their order, each with its score.
RECURSIVE filter_map(_, _, _)
filter_map(repositories, pattern, matcher) ==
  IF repositories = <<>> THEN <<>>
  ELSE LET first == repositories[1]
           matched == fuzzy_match(first.name, pattern, matcher)
           rest == filter_map(SubSeq(repositories, 2, Len(repositories)), pattern, matcher)
       IN  IF matched = None THEN rest
           ELSE <<SearchResult(first.name, first.repo_config.path, matched[1])>> \o rest

\* An insertion that puts an element before those of equal score.
Insert_before(sorted, x) ==
  LET at == Cardinality({k \in 1..Len(sorted) : sorted[k].score > x.score})
  IN  SubSeq(sorted, 1, at) \o <<x>> \o SubSeq(sorted, at + 1, Len(sorted))

\* search/mod.rs:44, slice::sort_by with b.score.cmp(&a.score): a stable sort
\* by descending score; an element goes after those of greater or equal score.
Insert(sorted, x) ==
  LET at == Cardinality({k \in 1..Len(sorted) : sorted[k].score >= x.score})
  IN  SubSeq(sorted, 1, at) \o <<x>> \o SubSeq(sorted, at + 1, Len(sorted))

\* A sort that leaves the results in their order.
sort_by_none(results) == results

RECURSIVE sort_by(_)
sort_by(results) ==
  IF results = <<>> THEN <<>>
  ELSE Insert(sort_by(SubSeq(results, 1, Len(results) - 1)), results[Len(results)])

\* FuzzySearch::search
search(repositories, pattern, matcher) ==
  sort_by(filter_map(repositories, pattern, matcher))

\* The names of the repositories searched, and what the matcher may be.
RepoNames == {<<"a">>, <<"a", "b">>, <<"b", "a">>, <<"b">>}
Repo(name) == [name |-> name, repo_config |-> [path |-> <<"h", "/">> \o name]]
Scores == [RepoNames -> {1, 2}]
Matchers == [case : CaseMatching, score : Scores]

\* Names of both letter cases.
CaseNames == {<<"a">>, <<"A">>, <<"a", "B">>}

\* GlobalConfig.search as `p init` writes it.
SearchConfig_default == [case_sensitive |-> FALSE]

\* go.rs:44, remove.rs:24, sync.rs:25, grep.rs:24: FuzzySearch::new() makes the
\* matcher, search is called and returns.  The configuration is not read.
Search(matcher) ==
  /\ searched.call = "none"
  /\ searched' = [searched EXCEPT !.call = "done", !.matcher = matcher,
                    !.results = search(searched.repositories, searched.pattern, matcher)]
  /\ UNCHANGED <<session, selector, probe, store>>

\* A search about to be called, the configuration being `config`.
ToSearch(repositories, pattern, config) ==
  [call |-> "none", repositories |-> repositories, pattern |-> pattern,
   config |-> config, matcher |-> <<>>, results |-> <<>>]

InitSearch ==
  /\ NoSession
  /\ selector = NoSelector
  /\ probe = NoProbe
  /\ searched \in
       {ToSearch(l, q, SearchConfig_default) :
          l \in {<<>>} \cup {l \in SeqsDistinct({Repo(n) : n \in RepoNames}) : Len(l) <= 3},
          q \in {<<>>, <<"a">>, <<"b">>, <<"a", "b">>, <<"c">>}}
  /\ store = NoStore

NextSearch == \E matcher \in Matchers : Search(matcher)

SpecSearch == InitSearch /\ [][NextSearch]_vars

\* Searches over names and patterns of both letter cases, under either
\* value `p config set` can give search.case_sensitive.
InitCase ==
  /\ NoSession
  /\ selector = NoSelector
  /\ probe = NoProbe
  /\ searched \in
       {ToSearch(l, q, [case_sensitive |-> b]) :
          l \in {l \in SeqsDistinct({Repo(n) : n \in CaseNames}) : Len(l) <= 2},
          q \in {<<"a">>, <<"A">>, <<"a", "b">>},
          b \in BOOLEAN}
  /\ store = NoStore

NextCase ==
  \E matcher \in [case : CaseMatching, score : [CaseNames -> {1, 2}]] : Search(matcher)

SpecCase == InitCase /\ [][NextCase]_vars

\* ------------------------- config/workspace.rs: one registry and its files
\* The operations applied to one registry, at most.
MaxOps == 5

\* ~/.config/project-man/config.toml: absent, no TOML of a GlobalConfig, or one.
GlobalConfigs == {"absent", "malformed", "ok"}

\* The content of a project-man.yml that is no YAML of a WorkspaceRegistry.
Garbage == [malformed |-> TRUE]

\* GlobalConfig::load
GlobalConfig_load(config) ==
  IF config = "absent" THEN Err("Config")
  ELSE IF config = "malformed" THEN Err("Toml")
  ELSE Ok("")

\* WorkspaceRegistry::load_from_workspace with its failures; `e` holds the
\* global configuration, the workspace directory, the file and the checkouts.
load_from_workspace_result(e, t) ==
  IF GlobalConfig_load(e.config).ret = "Err" THEN GlobalConfig_load(e.config)
  ELSE IF ~e.workspace THEN Err("WorkspaceNotFound")
  ELSE IF e.file.exists /\ e.file.doc = Garbage THEN Err("Yaml")
  ELSE Ok(load_from_workspace(e.file, e.dirs, t))

\* WorkspaceRegistry::save with its failures: what it returns, the registry
\* it leaves and the file.
save_result(e, r, t) ==
  IF GlobalConfig_load(e.config).ret = "Err"
    THEN [ret |-> GlobalConfig_load(e.config), reg |-> r, file |-> e.file]
  ELSE IF ~e.workspace
    THEN [ret |-> Err("WorkspaceNotFound"), reg |-> r, file |-> e.file]
  ELSE [ret |-> Ok(""), reg |-> saved(r, t), file |-> save(r, t)]

\* The names the operations are called with, and their records.
StoreNames == {<<"x">>, <<"y">>}
StorePath(name) == <<"h", "/">> \o name

\* An operation is applied at time t: the clock never goes back.
Applies(t) ==
  /\ store.ops < MaxOps
  /\ t \in {store.now, store.now + 1}

\* The operation `op` was applied to `name` at time t and returned `ret`
\* (remove_repository returns `removed`, init overwrites the records
\* `replaced`: both set by their callers).
Applied(e, op, name, t, ret) ==
  [e EXCEPT !.ops = @ + 1, !.now = t, !.op = op, !.name = name, !.ret = ret,
            !.removed = None, !.replaced = {}]

\* The names of the records a registry file holds.
RecordsOf(f) ==
  IF f.exists /\ f.doc # Garbage THEN {e[1] : e \in f.doc.repositories} ELSE {}

\* An init that keeps the registry the workspace has.
StoreInit_keeping(written, t) ==
  /\ Applies(t)
  /\ LET loaded == load_from_workspace_result([store EXCEPT !.config = "ok"], t)
         kept == IF written >= 2 /\ store.workspace /\ loaded.ret = "Ok"
                   THEN loaded.msg ELSE WorkspaceRegistry_new(t)
         e == [store EXCEPT !.workspace = written >= 1 \/ @,
                            !.config = IF written >= 2 THEN "ok" ELSE @,
                            !.reg = IF written >= 2 THEN Some(saved(kept, t)) ELSE @,
                            !.file = IF written >= 3 THEN save(kept, t) ELSE @]
     IN  store' = [Applied(e, "init", <<>>, t, IF written = 3 THEN Ok("") ELSE Err("Io"))
                     EXCEPT !.replaced = IF written = 3 THEN RecordsOf(store.file) ELSE {}]
  /\ UNCHANGED <<session, selector, probe, searched>>

\* init.rs:5-27: create_dir_all, GlobalConfig::new and save, then
\* WorkspaceRegistry::new and save; `written` of the three writes succeed.
StoreInit(written, t) ==
  /\ Applies(t)
  /\ LET e == [store EXCEPT !.workspace = written >= 1 \/ @,
                            !.config = IF written >= 2 THEN "ok" ELSE @,
                            !.reg = IF written >= 2
                                      THEN Some(saved(WorkspaceRegistry_new(t), t)) ELSE @,
                            !.file = IF written >= 3
                                       THEN save(WorkspaceRegistry_new(t), t) ELSE @]
     IN  store' = [Applied(e, "init", <<>>, t, IF written = 3 THEN Ok("") ELSE Err("Io"))
                     EXCEPT !.replaced = IF written = 3 THEN RecordsOf(store.file) ELSE {}]
  /\ UNCHANGED <<session, selector, probe, searched>>

\* add.rs:7, remove.rs:7, sync.rs:7: a command loads the registry.
StoreLoad(t) ==
  /\ Applies(t)
  /\ LET loaded == load_from_workspace_result(store, t)
     IN  store' = IF loaded.ret = "Ok"
                    THEN Applied([store EXCEPT !.reg = Some(loaded.msg)], "load", <<>>, t,
                                 Ok(""))
                    ELSE Applied(store, "load", <<>>, t, loaded)
  /\ UNCHANGED <<session, selector, probe, searched>>

\* add.rs:39-45: RepositoryConfig::new and add_repository
StoreAdd(name, t) ==
  /\ Applies(t)
  /\ store.reg # None
  /\ LET config == RepositoryConfig_new(StorePath(name), GitAt \o name, <<>>, t)
     IN  store' = Applied([store EXCEPT !.reg = Some(add_repository(@[1], name, config, t))],
                          "add", name, t, Ok(""))
  /\ UNCHANGED <<session, selector, probe, searched>>

\* remove.rs:68: remove_repository
StoreRemove(name, t) ==
  /\ Applies(t)
  /\ store.reg # None
  /\ LET removed == remove_repository(store.reg[1], name, t)
     IN  store' = [Applied([store EXCEPT !.reg = Some(removed.reg)], "remove", name, t,
                           Ok(""))
                     EXCEPT !.removed = removed.result]
  /\ UNCHANGED <<session, selector, probe, searched>>

\* sync.rs:66: update_last_sync
StoreTouch(name, t) ==
  /\ Applies(t)
  /\ store.reg # None
  /\ LET touched == update_last_sync(store.reg[1], name, t)
     IN  store' = Applied([store EXCEPT !.reg = Some(touched.reg)], "touch", name, t,
                          IF touched.ok THEN Ok("") ELSE Err("RepositoryNotFound"))
  /\ UNCHANGED <<session, selector, probe, searched>>

\* add.rs:46, remove.rs:69, sync.rs:87, migrate.rs:110: save
StoreSave(t) ==
  /\ Applies(t)
  /\ store.reg # None
  /\ LET written == save_result(store, store.reg[1], t)
     IN  store' = Applied([store EXCEPT !.reg = Some(written.reg), !.file = written.file],
                          "save", <<>>, t, written.ret)
  /\ UNCHANGED <<session, selector, probe, searched>>

\* Before the first operation: no configuration and no workspace; or both
\* and, in the workspace, no registry file, one that is no registry, or the
\* empty registry; the checkouts `ds` exist.
ToStore(config, workspace, f, ds) ==
  [config |-> config, workspace |-> workspace, file |-> f, dirs |-> ds, now |-> 0,
   ops |-> 0, reg |-> None, op |-> "none", name |-> <<>>, ret |-> Ok(""),
   removed |-> None, replaced |-> {}]

InitStore ==
  /\ NoSession
  /\ selector = NoSelector
  /\ probe = NoProbe
  /\ searched = NoSearch
  /\ store \in
       {ToStore(config, FALSE, NoFile, {}) : config \in GlobalConfigs} \cup
       {ToStore(config, TRUE, f, ds) :
          config \in GlobalConfigs,
          f \in {NoFile, FileOf(Garbage), FileOf(to_string(WorkspaceRegistry_new(0)))},
          ds \in SUBSET {StorePath(n) : n \in StoreNames}}

NextStore ==
  \E t \in 0..MaxOps :
    \/ \E written \in 0..3 : StoreInit(written, t)
    \/ StoreLoad(t)
    \/ \E name \in StoreNames : StoreAdd(name, t)
    \/ \E name \in StoreNames : StoreRemove(name, t)
    \/ \E name \in StoreNames : StoreTouch(name, t)
    \/ StoreSave(t)

SpecStore == InitStore /\ [][NextStore]_vars

\* ------------------------------------------------------------------ claims
\* The records of the document project-man.yml holds, by name.
Persisted == from_str(file.doc).repositories
PersistedNames == {e[1] : e \in file.doc.repositories}

\* Invocation p starts in this step, as command c.
Starts(p, c) == pc[p] = "idle" /\ cmd'[p] = c

\* A step of `add` that finds its name in the registry it loaded.
AddsPresentName(p) ==
  /\ Starts(p, "add")
  /\ target'[p] # NoTarget
  /\ target'[p].name \in DOMAIN reg'[p].repositories

Collides(r, name, path) ==
  \E n \in DOMAIN r.repositories :
    n # name /\ get_full_path(r.repositories[n].path) = get_full_path(path)

\* C2: adding a record whose path resolves to the directory of a record the
\* registry holds under another name is turned down and leaves the registry
\* unchanged (here without the kind of error, which the code does not have:
\* already the weaker statement fails).
C2_PathCollisionRejected ==
  [][\A p \in Procs : \A n \in DOMAIN reg'[p].repositories :
        (cmd[p] \in {"add", "migrate"} /\ n \notin DOMAIN reg[p].repositories)
          => ~Collides(reg[p], n, reg'[p].repositories[n].path)]_vars

\* No two records of registry r resolve to one directory.
DirsUnique(r) ==
  \A n, m \in DOMAIN r.repositories :
    get_full_path(r.repositories[n].path) = get_full_path(r.repositories[m].path) => n = m

Saves(p) == file' # file /\ pc'[p] # pc[p]

\* What a load right after this step yields.
LoadedNext == load_from_workspace(file', dirs', now').repositories

\* C4 as stated: save followed by load yields the records that were saved.
C4_SaveThenLoad ==
  [][\A p \in Procs : Saves(p) => LoadedNext = reg'[p].repositories]_vars

\* C4 amended: save followed by load yields the saved records whose
\* directory exists at the load, each with every field as saved; the saved
\* records whose directory is gone are dropped.
C4_SaveThenLoadExisting ==
  [][\A p \in Procs : Saves(p) =>
        /\ DOMAIN LoadedNext =
             {n \in DOMAIN reg'[p].repositories :
                get_full_path(reg'[p].repositories[n].path) \in dirs'}
        /\ \A n \in DOMAIN LoadedNext : LoadedNext[n] = reg'[p].repositories[n]]_vars

\* C4 witness: a registry just saved with a record whose directory is gone
\* and a record, synced before, whose directory is there.
C4_Witness ==
  \E p \in Procs :
    /\ pc[p] = "done" /\ file = FileOf(to_string(reg[p]))
    /\ \E n, m \in DOMAIN reg[p].repositories :
         /\ ~exists(reg[p].repositories[n].path, dirs)
         /\ exists(reg[p].repositories[m].path, dirs)
         /\ reg[p].repositories[m].last_sync # None

\* C5: a load drops, in memory only, the records whose directory is gone,
\* and fails for none of them; the file changes only in the step in which
\* a mutating command saves; no step of go, list, status or grep changes it.
C5_LoadPrunesInMemoryOnly ==
  [][/\ \A p \in Procs : (pc[p] = "idle" /\ pc'[p] # "idle") =>
          /\ file' = file
          /\ DOMAIN reg'[p].repositories =
               {e[1] : e \in {x \in file.doc.repositories :
                                get_full_path(x[2].path) \in dirs}}
          /\ result'[p].ret = "Err" => result'[p].msg = "InvalidUrl"
     /\ file' # file =>
          \E p \in Procs :
            /\ cmd[p] \in {"add", "migrate", "sync", "remove"}
            /\ pc[p] \in {"add_clone", "migrate_item", "sync_pull", "remove_files"}
            /\ pc'[p] \in {"done", "remove_delete"}
     /\ (\E p \in Procs : cmd'[p] \in ReadOnly /\ pc'[p] # pc[p]) => file' = file]_vars

\* C5 witness: a read-only command at work whose load dropped a record the
\* file still holds.
C5_Witness ==
  \E p \in Procs :
    /\ cmd[p] \in ReadOnly /\ pc[p] = "read"
    /\ \E n \in PersistedNames : n \notin DOMAIN reg[p].repositories

\* C6: a save leaves on disk the saver's view alone: its records, and no
\* record another invocation saved since the saver loaded.
C6_LastWriterWins ==
  [][\A p \in Procs : Saves(p) =>
        from_str(file'.doc).repositories = reg'[p].repositories]_vars

\* C6 witness: two `add` invocations both returned success, both checkouts
\* exist, and the file holds the record of one of them only.
C6_Witness ==
  \E p, q \in Procs :
    /\ p # q
    /\ pc[p] = "done" /\ cmd[p] = "add"
    /\ result[p] = Ok("Repository added successfully")
    /\ pc[q] = "done" /\ cmd[q] = "add"
    /\ result[q] = Ok("Repository added successfully")
    /\ exists(target[p].path, dirs) /\ exists(target[q].path, dirs)
    /\ target[p].name \notin PersistedNames
    /\ target[q].name \in PersistedNames

\* The lines sync printed for the repositories with one of `texts`.
Printed(p, texts) == {k \in 1..Len(out[p]) : out[p][k][2] \in texts}

\* C7: after a sync run every repository whose outcome was Updated or
\* UpToDate has last_sync set to the time of the run.
C7_SuccessRefreshesLastSync ==
  \A p \in Procs : (pc[p] = "done" /\ cmd[p] = "sync") =>
    \A k \in Printed(p, {"Updated", "Up to date"}) :
      reg[p].repositories[out[p][k][1]].last_sync = Some(now)

\* The lines sync prints in this step for the repositories with one of `texts`.
NewlyPrinted(p, texts) ==
  {k \in (Len(out[p]) + 1)..Len(out'[p]) : out'[p][k][2] \in texts}

\* C8: in a sync run a repository whose outcome is Conflict or Failed keeps
\* its last_sync and adds one to the failure counter (as a missing directory
\* does); a last_sync changes only in the step that reports its own
\* repository Updated or UpToDate.
C8_FailureKeepsLastSync ==
  [][\A p \in Procs : (cmd[p] = "sync" /\ cmd'[p] = "sync") =>
        /\ \A k \in NewlyPrinted(p, {"Conflict", "Failed"}) :
             reg'[p].repositories[out'[p][k][1]].last_sync
               = reg[p].repositories[out'[p][k][1]].last_sync
        /\ error_count'[p] = error_count[p]
             + Cardinality(NewlyPrinted(p, {"Conflict", "Failed"}))
             + Cardinality(NewlyPrinted(p, {"Directory not found"}))
        /\ \A n \in DOMAIN reg[p].repositories :
             reg'[p].repositories[n].last_sync # reg[p].repositories[n].last_sync =>
               \E k \in NewlyPrinted(p, {"Updated", "Up to date"}) : out'[p][k][1] = n]_vars

\* C8 witness: a finished run with a Conflict and an Updated repository, the
\* first with no last_sync, the second with the time of the run.
C8_Witness ==
  \E p \in Procs :
    /\ pc[p] = "done" /\ cmd[p] = "sync" /\ error_count[p] = 1
    /\ \E k \in Printed(p, {"Conflict"}) : \E j \in Printed(p, {"Updated"}) :
         /\ reg[p].repositories[out[p][k][1]].last_sync = None
         /\ reg[p].repositories[out[p][j][1]].last_sync = Some(now)
         /\ Persisted[out[p][k][1]].last_sync = None

\* A finished sync run over three repositories, the second missing when
\* reached, the other two synced successfully.
SecondOfThreeMissing(p) ==
  /\ pc[p] = "done" /\ cmd[p] = "sync" /\ Len(queue[p]) = 3 /\ Len(out[p]) = 3
  /\ out[p][1][2] \in {"Updated", "Up to date"}
  /\ out[p][2][2] = "Directory not found"
  /\ out[p][3][2] \in {"Updated", "Up to date"}

\* C9 as stated: such a run ends with successes = 2 and failures = 0.
C9_MissingNotCounted ==
  \A p \in Procs : SecondOfThreeMissing(p) =>
    success_count[p] = 2 /\ error_count[p] = 0

C11_RawModeRestored == selector.pc = "returned" => ~selector.raw_mode

\* An event is read in this step.
Reads == selector'.reads = selector.reads + 1

\* C12: the cursor starts at 0 and stays within 0..len-1; Up sets it to
\* max(0, cursor-1), Down to min(len-1, cursor+1), and any other event that
\* does not end the selection leaves it as it is.
C12_CursorInRange ==
  [][LET len == Len(selector.candidates)
         cursor == selector.selected
     IN  /\ selector.pc = "idle" => cursor = 0
         /\ (selector.pc = "idle" /\ selector'.pc = "draw") => selector'.selected = 0
         /\ selector'.pc \in {"draw", "read"} => selector'.selected \in 0..(len - 1)
         /\ Reads =>
              /\ selector'.event = "Up" =>
                   selector'.selected = IF cursor - 1 > 0 THEN cursor - 1 ELSE 0
              /\ selector'.event = "Down" =>
                   selector'.selected = IF cursor + 1 < len - 1 THEN cursor + 1 ELSE len - 1
              /\ selector'.event \in {"OtherKey", "NoKey"} => selector'.selected = cursor
         /\ ~Reads /\ selector.pc # "idle" => selector'.selected = cursor]_vars

\* C12 witness: three moves down a list of two: the cursor is on the last row.
C12_Witness ==
  /\ Len(selector.candidates) = 2 /\ selector.reads = 3
  /\ selector.event = "Down" /\ selector.selected = 1 /\ selector.pc = "draw"

\* C13: Enter ends the loop with the candidate at the cursor and Esc with no
\* selection; after either no event is read, and what is returned on success
\* is that result.
C13_ConfirmAndCancelEnd ==
  [][/\ (Reads /\ selector'.event = "Enter") =>
          /\ selector'.pc = "restore"
          /\ selector'.result = Some(selector.candidates[selector.selected + 1])
     /\ (Reads /\ selector'.event = "Esc") =>
          selector'.pc = "restore" /\ selector'.result = None
     /\ selector.pc \in {"restore", "clear", "returned"} =>
          /\ ~Reads /\ selector'.result = selector.result
          /\ selector'.pc \in {"clear", "returned"}
     /\ (selector.pc = "clear" /\ selector'.returned.ret = "Ok") =>
          selector'.returned.msg = selector.result]_vars

\* C13 witness: the second of three candidates confirmed and returned.
C13_Witness ==
  /\ selector.pc = "returned" /\ selector.event = "Enter" /\ selector.selected = 1
  /\ Len(selector.candidates) = 3
  /\ selector.returned = [ret |-> "Ok", msg |-> Some(selector.candidates[2])]

\* C14: with one candidate the selector returns it at once, with none it
\* returns no selection; in both cases raw mode is never entered, nothing is
\* drawn and no event is read.
C14_ReturnsAtOnce ==
  [][Len(selector.candidates) <= 1 =>
        /\ ~selector.raw_mode /\ ~selector'.raw_mode
        /\ selector.screen = <<>> /\ selector'.screen = <<>>
        /\ selector.reads = 0 /\ selector'.reads = 0
        /\ selector.pc = "idle" =>
             /\ selector'.pc = "returned"
             /\ selector'.returned =
                  [ret |-> "Ok",
                   msg |-> IF selector.candidates = <<>> THEN None
                           ELSE Some(selector.candidates[1])]]_vars

\* C14 witness: the one candidate returned.
C14_Witness ==
  /\ Len(selector.candidates) = 1 /\ selector.pc = "returned"
  /\ selector.returned = [ret |-> "Ok", msg |-> Some(Candidate_b)]

\* The screen shows the whole list, the row of the cursor marked and followed
\* by its path, no other row marked.
Redrawn ==
  /\ Len(selector.screen) = Len(selector.candidates)
  /\ \A k \in 1..Len(selector.screen) :
       /\ selector.screen[k].name = selector.candidates[k].name
       /\ selector.screen[k].prefix = IF k = selector.selected + 1 THEN ">" ELSE " "
       /\ selector.screen[k].path =
            IF k = selector.selected + 1
              THEN Some(selector.candidates[k].repo_config.path) ELSE None

\* C15: the list is fully redrawn, the row of the cursor marked, before every
\* wait for input: an event is read only from a screen just redrawn for the
\* current cursor, and after a read nothing is read before the next redraw.
C15_RedrawBeforeRead ==
  [][/\ selector.pc = "read" => Redrawn
     /\ Reads => selector.pc = "read" /\ Redrawn /\ selector'.pc # "read"
     /\ selector'.pc = "read" => selector.pc = "draw"]_vars

\* C15 witness: waiting for the third event, the cursor moved to the second
\* row and the screen showing it.
C15_Witness ==
  /\ selector.pc = "read" /\ selector.reads = 2 /\ selector.selected = 1
  /\ selector.screen[2].prefix = ">" /\ selector.screen[1].prefix = " "

\* The lines of a text that report the update of a ref: "a -> origin/a".
RefUpdateLines(text) ==
  {i \in 1..Len(Lines(text)) :
     ContainsStr(Lines(text)[i], Arrow) /\ ContainsStr(Lines(text)[i], Slash)}

C17_StatusFailsOutsideRepository ==
  probe.call = "status" =>
    /\ (~probe.output.launched \/ ~probe.output.success) => ~probe.result.ok
    /\ (probe.output.launched /\ probe.output.success
          /\ probe.upstream.launched /\ ~probe.upstream.success) =>
         /\ probe.result.ok
         /\ probe.result.ahead = 0 /\ probe.result.behind = 0

\* The names of a sequence of repositories or of results.
NamesOf(l) == [k \in 1..Len(l) |-> l[k].name]

\* The names search returned.
Returned == {searched.results[k].name : k \in 1..Len(searched.results)}

InputIndex(name) ==
  CHOOSE k \in 1..Len(searched.repositories) : searched.repositories[k].name = name

\* C19: the results are in the order of non-increasing score, two results of
\* equal score in the order they have in the input.
C19_StableDescending ==
  searched.call = "done" =>
    \A i, j \in 1..Len(searched.results) : i < j =>
      /\ searched.results[i].score >= searched.results[j].score
      /\ searched.results[i].score = searched.results[j].score =>
           InputIndex(searched.results[i].name) < InputIndex(searched.results[j].name)

\* C19 witness: three results, the last of the input first for its score, the
\* other two of equal score in their input order.
C19_Witness ==
  /\ searched.call = "done" /\ Len(searched.results) = 3
  /\ searched.results[1].name = searched.repositories[3].name
  /\ searched.results[2].name = searched.repositories[1].name
  /\ searched.results[2].score = searched.results[3].score

\* The search for "a" over the names "a", "ab", "ba" has returned.
SearchedExample ==
  /\ searched.call = "done" /\ searched.pattern = <<"a">>
  /\ NamesOf(searched.repositories) = <<<<"a">>, <<"a", "b">>, <<"b", "a">>>>

C21_CaseInsensitiveConfigurable ==
  searched.call = "done" =>
    \A k \in 1..Len(searched.repositories) :
      LET name == searched.repositories[k].name
      IN  name \in Returned <=>
            IF searched.config.case_sensitive
              THEN IsSubsequence(searched.pattern, name)
              ELSE IsSubsequence(to_lowercase(searched.pattern), to_lowercase(name))

\* An operation of the registry is applied in this step.
AppliedNow(op) == store'.ops = store.ops + 1 /\ store'.op = op

\* C22: load fails when no registry file exists at the workspace root, and
\* fails when the file holds malformed content.
C22_LoadFailsWithoutFile ==
  store.op = "load" =>
    /\ ~store.file.exists => store.ret.ret = "Err"
    /\ store.file = FileOf(Garbage) => store.ret.ret = "Err"

\* C23: removing a present name returns its record and deletes that record
\* alone; removing an absent name returns nothing and leaves the registry,
\* records and updated_at, as it is; a second removal of the same name right
\* after the first changes nothing.
C23_RemoveIdempotent ==
  [][AppliedNow("remove") =>
       LET r == store.reg[1]
           after == store'.reg[1]
           n == store'.name
       IN  /\ n \in DOMAIN r.repositories =>
                /\ store'.removed = Some(r.repositories[n])
                /\ DOMAIN after.repositories = DOMAIN r.repositories \ {n}
                /\ \A m \in DOMAIN after.repositories :
                     after.repositories[m] = r.repositories[m]
           /\ n \notin DOMAIN r.repositories =>
                store'.removed = None /\ after = r
           /\ (store.op = "remove" /\ store.name = n) =>
                store'.removed = None /\ after = r]_vars

\* C23 witness: a name removed that is not there, from a registry that holds
\* a record and was last changed before.
C23_Witness ==
  /\ store.op = "remove" /\ store.removed = None
  /\ store.reg[1].repositories # EmptyMap
  /\ store.reg[1].updated_at < store.now

\* C24: update_last_sync of an absent name fails with RepositoryNotFound and
\* leaves the registry as it is; of a present name it sets that record's
\* last_sync to the current time and leaves every other record and every
\* other field of that record as they are.
C24_TouchSync ==
  [][AppliedNow("touch") =>
       LET r == store.reg[1]
           after == store'.reg[1]
           n == store'.name
       IN  /\ n \notin DOMAIN r.repositories =>
                store'.ret = Err("RepositoryNotFound") /\ after = r
           /\ n \in DOMAIN r.repositories =>
                /\ store'.ret = Ok("")
                /\ DOMAIN after.repositories = DOMAIN r.repositories
                /\ after.repositories[n] =
                     [r.repositories[n] EXCEPT !.last_sync = Some(store'.now)]
                /\ \A m \in DOMAIN r.repositories \ {n} :
                     after.repositories[m] = r.repositories[m]
                /\ after.version = r.version /\ after.created_at = r.created_at]_vars

\* C24 witness: of two records one stamped, after it was added, the other
\* never synced.
C24_Witness ==
  /\ store.op = "touch" /\ store.ret = Ok("")
  /\ \E n, m \in DOMAIN store.reg[1].repositories :
       /\ n = store.name /\ m # n
       /\ store.reg[1].repositories[n].last_sync = Some(store.now)
       /\ store.reg[1].repositories[n].added_at < store.now
       /\ store.reg[1].repositories[m].last_sync = None

\* C25: over add, remove, update_last_sync and save, the clock never going
\* back, updated_at never decreases, and it is the current time after every
\* add, every removal of a record, every update of a last_sync and every
\* save that succeeds.
C25_UpdatedAtMonotonic ==
  [][(\E op \in {"add", "remove", "touch", "save"} : AppliedNow(op)) =>
       LET r == store.reg[1]
           after == store'.reg[1]
       IN  /\ store'.now >= store.now
           /\ after.updated_at >= r.updated_at
           /\ store'.op = "add" => after.updated_at = store'.now
           /\ (store'.op = "remove" /\ store'.removed # None) =>
                after.updated_at = store'.now
           /\ (store'.op = "touch" /\ store'.ret = Ok("")) =>
                after.updated_at = store'.now
           /\ (store'.op = "save" /\ store'.ret = Ok("")) =>
                /\ after.updated_at = store'.now
                /\ store'.file.doc.updated_at = store'.now]_vars

\* C25 witness: a record removed, updated_at at the time of the removal and
\* later than the creation of the registry.
C25_Witness ==
  /\ store.op = "remove" /\ store.removed # None
  /\ store.reg[1].updated_at = store.now
  /\ store.reg[1].created_at < store.now
  /\ store.ops >= 4

\* C28: when init has succeeded the registry file holds the empty registry,
\* whatever it held before: records, no registry, or nothing.
C28_InitWritesEmpty ==
  (store.op = "init" /\ store.ret = Ok("")) =>
    /\ store.file.exists /\ store.file.doc # Garbage
    /\ store.file.doc.repositories = {}
    /\ from_str(store.file.doc) = WorkspaceRegistry_new(store.now)
    /\ store.config = "ok" /\ store.workspace

\* C28 witness: init has succeeded on a workspace whose registry file held
\* records.
C28_Witness ==
  /\ store.op = "init" /\ store.ret = Ok("")
  /\ store.replaced # {}
  /\ RecordsOf(store.file) = {}

\* C26: the name of a record is a function of its path that is injective: an
\* `add` whose name the loaded registry holds is an `add` of the directory of
\* the record of that name.
C26_NameInjective ==
  \A p \in Procs : (cmd[p] = "add" /\ target[p] # NoTarget) =>
    \A n \in DOMAIN reg[p].repositories :
      n = target[p].name =>
        get_full_path(reg[p].repositories[n].path) = get_full_path(target[p].path)

\* Invocation p, of the time `now`, has changed the registry it loaded: it
\* added a record, stamped a last_sync or removed its target.
Mutated(p) ==
  \/ /\ cmd[p] \in {"add", "migrate"}
     /\ \E n \in DOMAIN reg[p].repositories : reg[p].repositories[n].added_at = now
  \/ /\ cmd[p] = "sync"
     /\ \E n \in DOMAIN reg[p].repositories : reg[p].repositories[n].last_sync = Some(now)
  \/ /\ cmd[p] = "remove" /\ target[p] # NoTarget
     /\ target[p].name \notin DOMAIN reg[p].repositories

\* C27: an invocation of add, remove, sync or migrate that has changed its
\* registry in memory has saved it when it returns: the file holds the
\* registry as the invocation leaves it.
C27_SavedIfMutated ==
  \A p \in Procs : (pc[p] = "done" /\ Mutated(p)) => file = FileOf(to_string(reg[p]))

\* A step of command c in invocation p.
StepOf(p, c) == cmd'[p] = c /\ pc'[p] # pc[p]

\* C29: `add` writes the file only in the step in which the clone has
\* succeeded: then the file holds the loaded records and the new one, whose
\* directory exists; an `add` that ends for an unparsable URL, a registered
\* name, an existing directory or a failed clone leaves the file as it is.
C29_AddSavesAfterClone ==
  [][\A p \in Procs : StepOf(p, "add") =>
        /\ file' # file =>
             /\ pc[p] = "add_clone"
             /\ result'[p] = Ok("Repository added successfully")
        /\ result'[p] \in {Err("InvalidUrl"), Err("Git"), Ok("already exists in workspace"),
                           Ok("Directory already exists")} =>
             file' = file /\ dirs' = dirs
        /\ result'[p] = Ok("Repository added successfully") =>
             /\ pc[p] = "add_clone"
             /\ ~exists(target[p].path, dirs) /\ exists(target[p].path, dirs')
             /\ file' = FileOf(to_string(reg'[p]))
             /\ DOMAIN reg'[p].repositories =
                  DOMAIN reg[p].repositories \cup {target[p].name}
             /\ reg'[p].repositories[target[p].name].path = target[p].path
             /\ \A n \in DOMAIN reg[p].repositories \ {target[p].name} :
                  reg'[p].repositories[n] = reg[p].repositories[n]]_vars

\* C29 witness: an `add` whose clone failed, the file holding the record of
\* an earlier `add` and not the new one.
C29_Witness ==
  \E p \in Procs :
    /\ pc[p] = "done" /\ cmd[p] = "add" /\ result[p] = Err("Git")
    /\ PersistedNames # {} /\ target[p].name \notin PersistedNames
    /\ ~exists(target[p].path, dirs)

\* The records the file holds after this step.
PersistedNext == from_str(file'.doc).repositories

\* The save of a confirmed `remove` by invocation p happens in this step.
RemoveSaves(p) == cmd[p] = "remove" /\ pc[p] = "remove_files" /\ pc'[p] # pc[p]

\* C30 as stated: a confirmed `remove` deletes the selected record from the
\* file and leaves every other record of the file as it is.
C30_RemoveKeepsOthers ==
  [][\A p \in Procs : RemoveSaves(p) =>
        /\ DOMAIN PersistedNext = PersistedNames \ {target[p].name}
        /\ \A n \in DOMAIN PersistedNext : PersistedNext[n] = Persisted[n]]_vars

\* C30 amended: a confirmed `remove` deletes from the file the selected
\* record and the records its load dropped because their directory was
\* missing, and leaves every other record of the file as it is; a first answer
\* other than "y" ends the command with the file and the local files as they
\* were; local files are deleted only in the step after the save, reached by a
\* second answer "y", and only those of the selected record.
C30_RemoveFrame ==
  [][\A p \in Procs : StepOf(p, "remove") =>
        /\ RemoveSaves(p) =>
             /\ target[p].name \in PersistedNames
             /\ DOMAIN PersistedNext =
                  (PersistedNames \cap DOMAIN reg[p].repositories) \ {target[p].name}
             /\ \A n \in DOMAIN PersistedNext : PersistedNext[n] = Persisted[n]
             /\ dirs' = dirs
             /\ pc'[p] = "done" => result'[p] = Ok("Local files preserved")
        /\ ~RemoveSaves(p) => file' = file
        /\ (pc[p] = "remove_confirm" /\ pc'[p] = "done") =>
             /\ result'[p] = Ok("Operation cancelled")
             /\ file' = file /\ dirs' = dirs
        /\ dirs' # dirs =>
             /\ pc[p] = "remove_delete"
             /\ file = FileOf(to_string(reg[p]))
             /\ target[p].name \notin PersistedNames
             /\ dirs' = dirs \ {get_full_path(target[p].path)}
             /\ result'[p] = Ok("Local files deleted")]_vars

\* C30 witness: a `remove` answered "y" twice has deleted the local files of
\* its record, after the file lost that record.
C30_Witness ==
  \E p \in Procs :
    /\ pc[p] = "done" /\ cmd[p] = "remove" /\ result[p] = Ok("Local files deleted")
    /\ target[p].name \notin PersistedNames
    /\ ~exists(target[p].path, dirs)
    /\ file = FileOf(to_string(reg[p]))

====
